---------------------------- MODULE Spec2Model ----------------------------
(***************************************************************************)
(* Model of src/src/lib.cpp (fastGHQuad): Hermite polynomial coefficients  *)
(* and evaluation, the companion-matrix root finder, and the direct and    *)
(* Golub-Welsch Gauss-Hermite quadrature engines.                          *)
(*                                                                         *)
(* Every entry point is a synchronous function of its arguments, so each   *)
(* action below is one complete call: it draws the arguments (and, where   *)
(* LAPACK is called, what LAPACK wrote into the output buffers) and        *)
(* records what the call handed to the solver and what the caller got.     *)
(*                                                                         *)
(* Numbers.  Points, coefficients and eigenvalues are small integers,      *)
(* which IEEE doubles and long represent exactly.  Values that are not     *)
(* integers are kept exact in symbolic form:                               *)
(*   - a quotient a/b of doubles is the pair <<a, b>>;                     *)
(*   - sqrt(a/b) is the record [sqrtNum |-> a, sqrtDen |-> b];             *)
(*   - a candidate Golub-Welsch weight mu0 * Z[i*n]^2 is an integer count  *)
(*     of WeightUnit-ths (see SqrtEps);                                    *)
(*   - a direct-method weight q * sqrt(pi) is the pair <<num, den>> = q.   *)
(***************************************************************************)
EXTENDS Integers, Sequences, FiniteSets, TLC

(***************************************************************************)
(* Bounds of the model.                                                    *)
(***************************************************************************)
\* Largest order drawn for the coefficient generator and the two engines.
MaxN == 3
\* Largest order drawn for the evaluator.
MaxOrder == 8
\* Longest point / order sequence handed to evalHermitePoly.
MaxLen == 3
\* Largest degree handed to the host-facing findPolyRoots.
MaxDeg == 2
\* Eigenpair counts up to this are drawn with every combination of
\* candidate weights; above it all candidate weights of one outcome agree.
MaxFull == 3
\* How many orders beyond the first one with n > Mmax(n) are drawn.
LargeSpan == 0

(***************************************************************************)
(* Sets the arguments and the solver outcomes are drawn from.              *)
(***************************************************************************)
\* Points x (doubles holding small integers).
XVals == {-1, 0, 2}
\* A single order; -1 is an invalid order.
OrderVals == -1 .. MaxOrder
\* Entries of the order vectors of any length up to MaxLen.
VecOrderVals == {-1, 2, 3}
\* Polynomial coefficients handed to findPolyRoots.
CoefVals == {-1, 0, 2}
\* Real and imaginary parts dgeev may report.
RootVals == {-1, 0, 1}
ImagVals == {0, 1}

SeqsUpTo(S, lo, hi) == UNION {[1 .. k -> S] : k \in lo .. hi}

\* The order vectors handed to evalHermitePoly.
OrderSeqs == {<<k>> : k \in OrderVals} \cup SeqsUpTo(VecOrderVals, 0, MaxLen)

Zeros(k) == [i \in 1 .. k |-> 0]

\* std::vector<double>::resize(m): truncate, or extend with 0.
Resize(v, m) == [i \in 1 .. m |-> IF i <= Len(v) THEN v[i] ELSE 0]

RECURSIVE Pow(_, _)
Pow(b, e) == IF e = 0 THEN 1 ELSE b * Pow(b, e - 1)

RECURSIVE Fact(_)
Fact(k) == IF k <= 1 THEN 1 ELSE k * Fact(k - 1)


(***************************************************************************)
(* PolynomialEvaluator: hermitePoly(x, n), lib.cpp 285-313.                *)
(***************************************************************************)
\* The loop "for (i = 2; i <= n; i++)" with its three locals.
RECURSIVE hermitePolyLoop(_, _, _, _, _, _)
hermitePolyLoop(x, n, i, hnm2, hnm1, hn) ==
    IF i <= n
    THEN LET nhn == 2 * x * hnm1 - 2 * (i - 1) * hnm2
         IN  hermitePolyLoop(x, n, i + 1, hnm1, nhn, nhn)
    ELSE hn

\* A plausible slip: the recurrence multiplier 2*i instead of 2*(i-1).
hermitePolyOffByOne(x, n) ==
    LET RECURSIVE Loop(_, _, _, _)
        Loop(i, hnm2, hnm1, hn) ==
            IF i <= n
            THEN LET nhn == 2 * x * hnm1 - 2 * i * hnm2
                 IN  Loop(i + 1, hnm1, nhn, nhn)
            ELSE hn
    IN  IF n = 0 THEN 1 ELSE IF n = 1 THEN 2 * x ELSE Loop(2, 1, 2 * x, 0)

\* A negative n passes both special cases, skips the loop and returns hn = 0.
hermitePoly(x, n) ==
    IF n = 0 THEN 1
    ELSE IF n = 1 THEN 2 * x
    ELSE hermitePolyLoop(x, n, 2, 1, 2 * x, 0)

(***************************************************************************)
(* PolynomialCoefficientGenerator: hermitePolyCoef(n, c), lib.cpp 222-267. *)
(* work is the (n+1) x (n+1) column-major long workspace, indexed from 0.  *)
(***************************************************************************)
\* The inner loop "for (j = 1; j < i + 1; j++)".
RECURSIVE hermitePolyCoefInner(_, _, _, _)
hermitePolyCoefInner(work, n, i, j) ==
    IF j < i + 1
    THEN hermitePolyCoefInner(
             [work EXCEPT ![i + j * (n + 1)] =
                 2 * work[(i - 1) + (j - 1) * (n + 1)]
                     - 2 * (i - 1) * work[(i - 2) + j * (n + 1)]],
             n, i, j + 1)
    ELSE work

\* The outer loop "for (i = 2; i < n + 1; i++)".
RECURSIVE hermitePolyCoefOuter(_, _, _)
hermitePolyCoefOuter(work, n, i) ==
    IF i < n + 1
    THEN hermitePolyCoefOuter(
             hermitePolyCoefInner(
                 [work EXCEPT ![i] = -2 * (i - 1) * work[i - 2]], n, i, 1),
             n, i + 1)
    ELSE work

\* The workspace after zeroing and "Initialize recursion" (n >= 2).
hermitePolyCoefWork0(n) ==
    [[k \in 0 .. (n + 1) * (n + 1) - 1 |-> 0]
        EXCEPT ![0] = 1, ![1] = 0, ![1 + 1 * (n + 1)] = 2]

\* The vector c (c[j] of the code is c[j+1] here) after the call, n >= 0.
hermitePolyCoef(n, c) ==
    IF n = 0 THEN [c EXCEPT ![1] = 1]
    ELSE IF n = 1 THEN [c EXCEPT ![1] = 0, ![2] = 2]
    ELSE LET work == hermitePolyCoefOuter(hermitePolyCoefWork0(n), n, 2)
         IN  [j \in 1 .. Len(c) |->
                 IF j - 1 < n + 1 THEN work[n + (j - 1) * (n + 1)] ELSE c[j]]

(***************************************************************************)
(* Reference values the claims are stated against.                         *)
(***************************************************************************)
\* H_n(x) = n! * sum_{m=0}^{n div 2} (-1)^m (2x)^(n-2m) / (m! (n-2m)!).
RECURSIVE HermiteHSum(_, _, _)
HermiteHSum(n, x, m) ==
    IF 2 * m > n THEN 0
    ELSE (IF m % 2 = 0 THEN 1 ELSE -1)
             * (Fact(n) \div (Fact(m) * Fact(n - 2 * m)))
             * Pow(2 * x, n - 2 * m)
         + HermiteHSum(n, x, m + 1)

HermiteH(n, x) == HermiteHSum(n, x, 0)

\* The closed forms of H_0 .. H_4, lowest power first.
ClosedForm(n) ==
    CASE n = 0 -> <<1>>
      [] n = 1 -> <<0, 2>>
      [] n = 2 -> <<-2, 0, 4>>
      [] n = 3 -> <<0, -12, 0, 8>>
      [] n = 4 -> <<12, 0, -48, 0, 16>>

(***************************************************************************)
(* Vectorised evaluator: evalHermitePoly(xR, nR), lib.cpp 315-345.         *)
(***************************************************************************)
\* v[i] of the code (0-based).  Rcpp's operator[] does not stop an index
\* past the end: the read returns whatever lies there, here `junk`.
ReadAt(v, i, junk) == IF i < Len(v) THEN v[i + 1] ELSE junk

\* A plausible slip: the broadcast branches take the LAST entry of the
\* shorter vector instead of the first.
evalHermitePolyLastEntry(xs, ns, junkX, junkN) ==
    IF Len(ns) = Len(xs)
    THEN [i \in 1 .. Len(xs) |-> hermitePoly(xs[i], ns[i])]
    ELSE IF Len(xs) > Len(ns)
    THEN [i \in 1 .. Len(xs) |->
             hermitePoly(xs[i], IF Len(ns) = 0 THEN junkN ELSE ns[Len(ns)])]
    ELSE [i \in 1 .. Len(ns) |->
             hermitePoly(IF Len(xs) = 0 THEN junkX ELSE xs[Len(xs)], ns[i])]

\* The returned vector h.
evalHermitePoly(xs, ns, junkX, junkN) ==
    IF Len(ns) = Len(xs)
    THEN [i \in 1 .. Len(xs) |->
             hermitePoly(ReadAt(xs, i - 1, junkX), ReadAt(ns, i - 1, junkN))]
    ELSE IF Len(xs) > Len(ns)
    THEN [i \in 1 .. Len(xs) |->
             hermitePoly(ReadAt(xs, i - 1, junkX), ReadAt(ns, 0, junkN))]
    ELSE [i \in 1 .. Len(ns) |->
             hermitePoly(ReadAt(xs, 0, junkX), ReadAt(ns, i - 1, junkN))]

\* The element reads of the call that fall outside the vector read from:
\* each broadcast loop runs at least once and reads entry 0 of the shorter
\* vector, whatever its length.
evalHermitePolyOob(xs, ns) ==
    IF Len(ns) = Len(xs) THEN {}
    ELSE IF Len(xs) > Len(ns)
    THEN IF 0 < Len(ns) THEN {} ELSE {<<"n", 0>>}
    ELSE IF 0 < Len(xs) THEN {} ELSE {<<"x", 0>>}

(***************************************************************************)
(* JacobiMatrixBuilder: buildHermiteJacobi(n, D, E), lib.cpp 6-38.         *)
(***************************************************************************)
SqrtOf(a, b) == [sqrtNum |-> a, sqrtDen |-> b]
SqrtZero == SqrtOf(0, 1)

\* A plausible slip: the off-diagonal loop runs to i < n.
buildHermiteJacobiFillsAll(n, D, E) ==
    [D |-> [i \in 1 .. Len(D) |-> IF i - 1 < n THEN 0 ELSE D[i]],
     E |-> [i \in 1 .. Len(E) |->
               IF i - 1 < n THEN SqrtOf((i - 1) + 1, 2) ELSE E[i]]]

\* D and E on exit: the two loops write D[0..n-1] and E[0..n-2] only.
buildHermiteJacobi(n, D, E) ==
    [D |-> [i \in 1 .. Len(D) |-> IF i - 1 < n THEN 0 ELSE D[i]],
     E |-> [i \in 1 .. Len(E) |->
               IF i - 1 < n - 1 THEN SqrtOf((i - 1) + 1, 2) ELSE E[i]]]

(***************************************************************************)
(* GolubWelschQuadratureEngine: quadInfoGolubWelsch, lib.cpp 40-131.       *)
(***************************************************************************)
\* ceil(pow(2.0, 1.8177530512018800 + 0.5022347758669726 * log2(n))) of
\* line 92, tabulated for n = 0, 1, 2, ... (entry n+1 is the value at n;
\* log2(0) = -inf gives 0).
PredictedTable ==
    << 0, 4, 5, 7, 8, 8, 9, 10, 11, 11, 12, 12, 13, 13, 14, 14,
       15, 15, 16, 16, 16, 17, 17, 18, 18, 18, 19, 19, 19, 20, 20, 20,
       21, 21, 21, 22, 22, 22, 22, 23, 23, 23, 24, 24, 24, 24, 25, 25,
       25, 25, 26, 26, 26, 26, 27, 27, 27, 27, 28, 28, 28, 28, 29, 29,
       29, 29, 29, 30, 30, 30, 30, 30, 31, 31, 31, 31, 32, 32, 32, 32,
       32, 33, 33, 33, 33, 33, 34, 34, 34, 34, 34, 34, 35, 35, 35, 35,
       35, 36, 36, 36, 36, 36, 36, 37, 37, 37, 37, 37, 38, 38, 38, 38,
       38, 38, 39, 39, 39, 39, 39, 39, 40, 40, 40, 40, 40, 40, 41, 41,
       41, 41, 41, 41, 41, 42, 42, 42, 42, 42, 42, 43, 43, 43, 43, 43,
       43, 43, 44, 44, 44, 44, 44, 44, 44, 45, 45, 45, 45, 45, 45, 45,
       46 >>

Predicted(n) == PredictedTable[n + 1]

\* "Add 100 to be on the safe side".
SafetyMargin == 100

Mmax(n) == Predicted(n) + SafetyMargin

\* sqrt(numeric_limits<double>::epsilon()), the pruning threshold, counted
\* in the unit candidate weights are counted in (half the threshold).
SqrtEps == 2

\* The candidate weights mu0 * Z[i*n] * Z[i*n] an outcome may hold: zero,
\* just below, exactly at and just above the threshold.
WeightVals == {0, SqrtEps - 1, SqrtEps, SqrtEps + 1}

\* weightValue of iteration i (0-based): Z has Mmax*n elements; eigenvector
\* i starts at Z[i*n].  A read past the end of Z yields junk[i - Mmax + 1].
weightValueAt(n, out, junk, i) ==
    IF i * n < Mmax(n) * n THEN out.cand[i + 1] ELSE junk[i - Mmax(n) + 1]

\* One pass through the body of the loop of lines 117-125, at index i;
\* st holds x, w and numPoints.
pruneStep(n, out, junk, st, i) ==
    LET weightValue == weightValueAt(n, out, junk, i)
    IN  IF weightValue < SqrtEps
        THEN st
        ELSE [x |-> [st.x EXCEPT ![st.numPoints + 1] = out.W[i + 1]],
              w |-> [st.w EXCEPT ![st.numPoints + 1] = weightValue],
              numPoints |-> st.numPoints + 1]

\* The passes for i = lo, lo+1, ..., hi-1, in that order.  The range is
\* halved rather than peeled one index at a time so that the evaluation
\* stays shallow for M in the hundreds; every pass and their order are
\* the loop's.
RECURSIVE pruneLoop(_, _, _, _, _, _)
pruneLoop(n, out, junk, st, lo, hi) ==
    IF hi <= lo THEN st
    ELSE IF hi = lo + 1 THEN pruneStep(n, out, junk, st, lo)
    ELSE LET mid == (lo + hi) \div 2
             left == pruneLoop(n, out, junk, st, lo, mid)
         IN  \* numPoints <= i holds throughout the loop: each pass keeps
             \* at most one point.  (Testing it settles the first half
             \* before the second is entered.)
             IF left.numPoints <= mid
             THEN pruneLoop(n, out, junk, left, mid, hi)
             ELSE left

\* x and w on exit, given what dstevx reported (out) and what lies past Z.
quadInfoGolubWelsch(n, out, junk, x, w) ==
    LET st0 == [x |-> Resize(x, out.M), w |-> Resize(w, out.M),
                numPoints |-> 0]
        r == pruneLoop(n, out, junk, st0, 0, out.M)
    IN  [x |-> Resize(r.x, r.numPoints), w |-> Resize(r.w, r.numPoints)]

\* The eigenvector starts Z[i*n] the call touches beyond the Mmax*n
\* elements of Z (dstevx writes M eigenvectors, the loop reads them back).
quadInfoGolubWelschOob(n, out) ==
    {<<"Z", i * n>> : i \in {k \in 0 .. out.M - 1 : ~(k * n < Mmax(n) * n)}}

(***************************************************************************)
(* CompanionMatrixRootFinder: findPolyRoots(c, n, r), lib.cpp 133-203.     *)
(***************************************************************************)
\* The n x n column-major matrix C handed to dgeev, indexed from 0; the
\* quotient -c[i] / c[n] is kept as the pair <<-c[i], c[n]>>.
companionMatrix(c, n) ==
    [k \in 0 .. n * n - 1 |->
        IF k \div n = n - 1 THEN <<-c[(k % n) + 1], c[n + 1]>>
        ELSE IF k % n >= 1 /\ k = (k % n) + n * ((k % n) - 1) THEN <<1, 1>>
        ELSE <<0, 1>>]

\* r on exit: dgeev writes the n real parts into &(*r)[0]; the imaginary
\* parts go to the local valI and are dropped.
findPolyRoots(n, r, out) ==
    [i \in 1 .. Len(r) |-> IF i <= n THEN out.WR[i] ELSE r[i]]

(***************************************************************************)
(* DirectQuadratureEngine: gaussHermiteDataDirect, lib.cpp 347-378.        *)
(***************************************************************************)
\* exp((n-1) log 2 + lgamma(n+1) + log sqrt(pi) - 2 log n - 2 log|H|)
\*   = sqrt(pi) * 2^(n-1) * n! / (n^2 * H^2),  H = hermitePoly(x_i, n-1);
\* the pair is the rational factor of sqrt(pi) (denominator 0: H = 0,
\* log(0) = -inf, the weight is +inf).
directWeight(n, xi) ==
    <<Pow(2, n - 1) * Fact(n),
      n * n * hermitePoly(xi, n - 1) * hermitePoly(xi, n - 1)>>

(***************************************************************************)
(* What LAPACK may write into the output arguments.                        *)
(***************************************************************************)
NoStevx == [called |-> FALSE, M |-> 0, INFO |-> 0, W |-> <<>>, cand |-> <<>>]
NoGeev == [calls |-> 0, INFO |-> 0, WR |-> <<>>, WI |-> <<>>]

\* Candidate weights of k eigenvectors.
WeightSeqs(k) ==
    IF k <= MaxFull THEN [1 .. k -> WeightVals]
    ELSE {[i \in 1 .. k |-> v] : v \in WeightVals}

\* dstevx (JOBZ = 'V', RANGE = 'V') on an n x n matrix: M <= n eigenvalues
\* in (VL, VU], ascending, in W[0..M-1]; cand[i] stands for mu0 * v_i[0]^2
\* of the i-th eigenvector; INFO > 0 when eigenvectors failed to converge.
\* N = 0 returns at once with M = 0, INFO = 0.
StevxOutcomes(n) ==
    UNION {{[called |-> TRUE, M |-> m, INFO |-> info,
             W |-> [i \in 1 .. m |-> lo + i], cand |-> cw] :
               info \in (IF m > 0 THEN {0, 1} ELSE {0}), lo \in {-2, 0},
               cw \in WeightSeqs(m)} : m \in 0 .. n}

StevxFor(n) ==
    IF n = 0
    THEN {[called |-> TRUE, M |-> 0, INFO |-> 0, W |-> <<>>, cand |-> <<>>]}
    ELSE StevxOutcomes(n)

\* What the reads past the end of Z return (none when M <= Mmax).
JunkFor(n, out) ==
    IF out.M > Mmax(n) THEN WeightSeqs(out.M - Mmax(n)) ELSE {<<>>}

\* dgeev (JOBVL = JOBVR = 'N') on an n x n matrix, called twice (workspace
\* query, then the decomposition): WR and WI hold the real and imaginary
\* parts; INFO > 0 when the QR algorithm failed.
GeevFor(n) ==
    IF n = 0
    THEN {[calls |-> 2, INFO |-> 0, WR |-> <<>>, WI |-> <<>>]}
    ELSE {[calls |-> 2, INFO |-> info, WR |-> wr, WI |-> wi] :
            info \in {0, 1}, wr \in [1 .. n -> RootVals],
            wi \in [1 .. n -> ImagVals]}

(***************************************************************************)
(* State: the last call made and everything observable about it.           *)
(***************************************************************************)
VARIABLES
    op,        \* entry point last called ("none" before the first call)
    order,     \* its order / degree argument n
    xIn,       \* evalHermitePoly: the point vector
    nIn,       \* evalHermitePoly: the order vector
    cIn,       \* findPolyRoots: the coefficient vector
    matD,      \* diagonal handed to dstevx
    matE,      \* off-diagonal vector handed to dstevx
    matC,      \* companion matrix handed to dgeev
    stevx,     \* what dstevx reported
    geev,      \* what dgeev reported
    local,     \* the callee-side std::vector (c or r) when the core returns
    returned,  \* TRUE when the call handed a value back to its caller
    retV,      \* the vector handed back (coefficients, roots, values)
    retX,      \* the nodes handed back
    retW,      \* the weights handed back
    signal,    \* the error signalled to the caller ("none": no error)
    oob        \* element accesses outside their buffer during the call

vars == <<op, order, xIn, nIn, cIn, matD, matE, matC, stevx, geev, local,
          returned, retV, retX, retW, signal, oob>>

\* Orders from which n > Mmax(n): dstevx can then find more eigenvalues
\* than Z has room for.
FirstOverOrder ==
    CHOOSE n \in 1 .. Len(PredictedTable) - 1 :
        /\ n > Mmax(n)
        /\ \A m \in 1 .. n - 1 : m <= Mmax(m)

\* Orders drawn for gaussHermiteData; -1 is an invalid order.
GWOrders == (-1 .. MaxN) \cup (FirstOverOrder .. FirstOverOrder + LargeSpan)

\* Largest order drawn for the host-facing hermitePolyCoef.
MaxCoefOrder == 4

Init ==
    /\ op = "none"
    /\ order = 0
    /\ xIn = <<>>
    /\ nIn = <<>>
    /\ cIn = <<>>
    /\ matD = <<>>
    /\ matE = <<>>
    /\ matC = <<>>
    /\ stevx = NoStevx
    /\ geev = NoGeev
    /\ local = <<>>
    /\ returned = FALSE
    /\ retV = <<>>
    /\ retX = <<>>
    /\ retW = <<>>
    /\ signal = "none"
    /\ oob = {}

(***************************************************************************)
(* SEXP hermitePolyCoef(SEXP nR), lib.cpp 269-283.                         *)
(* coef is the Rcpp vector; c = as<vector<double> >(coef) is a copy, the   *)
(* core routine fills c, and coef is what is returned.                     *)
(***************************************************************************)
HermitePolyCoefCall ==
    \E n \in -1 .. MaxCoefOrder :
        /\ op = "none"
        /\ op' = "hermitePolyCoef"
        /\ order' = n
        /\ xIn' = <<>> /\ nIn' = <<>> /\ cIn' = <<>>
        /\ matD' = <<>> /\ matE' = <<>> /\ matC' = <<>>
        /\ stevx' = NoStevx /\ geev' = NoGeev
        /\ retX' = <<>> /\ retW' = <<>>
        /\ LET coef == Zeros(n + 1)
               c == coef
           IN  IF n >= 0
               THEN /\ local' = hermitePolyCoef(n, c)
                    /\ retV' = coef
                    /\ returned' = TRUE
                    /\ signal' = "none"
                    /\ oob' = {}
               ELSE \* n = -1: work has (n+1)*(n+1) = 0 elements and the
                    \* "Initialize recursion" stores hit work[0], work[1]
                    \* and work[1 + 1*(n+1)]; the heap is overwritten and
                    \* the call may return the empty coef or crash.
                    /\ local' = c
                    /\ retV' = coef
                    /\ oob' = {<<"work", 0>>, <<"work", 1>>,
                               <<"work", 1 + 1 * (n + 1)>>}
                    /\ \E crash \in BOOLEAN :
                          /\ returned' = ~crash
                          /\ signal' = IF crash THEN "crash" ELSE "none"

(***************************************************************************)
(* SEXP findPolyRoots(SEXP cR), lib.cpp 205-220.                           *)
(* roots is the Rcpp vector; r = as<vector<double> >(roots) is a copy,     *)
(* the core routine has dgeev fill r, and roots is what is returned.       *)
(***************************************************************************)
FindPolyRootsCall ==
    \E c \in SeqsUpTo(CoefVals, 0, MaxDeg + 1) :
        /\ op = "none"
        /\ op' = "findPolyRoots"
        /\ order' = Len(c) - 1
        /\ cIn' = c
        /\ xIn' = <<>> /\ nIn' = <<>>
        /\ matD' = <<>> /\ matE' = <<>>
        /\ stevx' = NoStevx
        /\ retX' = <<>> /\ retW' = <<>>
        /\ oob' = {}
        /\ IF Len(c) = 0
           THEN \* NumericVector roots(-1): R refuses a negative length.
                /\ matC' = <<>> /\ geev' = NoGeev /\ local' = <<>>
                /\ retV' = <<>>
                /\ returned' = FALSE
                /\ signal' = "Rf_error"
           ELSE LET n == Len(c) - 1
                    roots == Zeros(n)
                    r == roots
                IN  \E out \in GeevFor(n) :
                        /\ matC' = companionMatrix(c, n)
                        /\ geev' = out
                        /\ local' = findPolyRoots(n, r, out)
                        /\ retV' = roots
                        /\ returned' = TRUE
                        /\ signal' = "none"

(***************************************************************************)
(* SEXP evalHermitePoly(SEXP xR, SEXP nR), lib.cpp 315-345.                *)
(***************************************************************************)
EvalHermitePolyCall ==
    \E xs \in SeqsUpTo(XVals, 0, MaxLen), ns \in OrderSeqs :
        LET bad == evalHermitePolyOob(xs, ns)
        IN  \E junkX \in (IF <<"x", 0>> \in bad THEN XVals ELSE {0}),
               junkN \in (IF <<"n", 0>> \in bad THEN OrderVals ELSE {0}) :
                /\ op = "none"
                /\ op' = "evalHermitePoly"
                /\ order' = 0
                /\ xIn' = xs
                /\ nIn' = ns
                /\ cIn' = <<>>
                /\ matD' = <<>> /\ matE' = <<>> /\ matC' = <<>>
                /\ stevx' = NoStevx /\ geev' = NoGeev
                /\ local' = <<>>
                /\ retV' = evalHermitePoly(xs, ns, junkX, junkN)
                /\ retX' = <<>> /\ retW' = <<>>
                /\ returned' = TRUE
                /\ signal' = "none"
                /\ oob' = bad

(***************************************************************************)
(* SEXP gaussHermiteData(SEXP nR), lib.cpp 402-416, through                *)
(* gaussHermiteDataGolubWelsch, lib.cpp 380-400.                           *)
(***************************************************************************)
GaussHermiteDataCall ==
    \E n \in GWOrders :
        /\ op = "none"
        /\ op' = "gaussHermiteData"
        /\ order' = n
        /\ xIn' = <<>> /\ nIn' = <<>> /\ cIn' = <<>>
        /\ matC' = <<>> /\ geev' = NoGeev
        /\ local' = <<>> /\ retV' = <<>>
        /\ IF n < 0
           THEN \* vector<double> x(n): the size converts to a huge
                \* size_t and the constructor throws std::length_error.
                /\ matD' = <<>> /\ matE' = <<>> /\ stevx' = NoStevx
                /\ retX' = <<>> /\ retW' = <<>>
                /\ returned' = FALSE
                /\ signal' = "std::length_error"
                /\ oob' = {}
           ELSE LET x == Zeros(n)
                    w == Zeros(n)
                    J == buildHermiteJacobi(n, Zeros(n),
                                            [i \in 1 .. n |-> SqrtZero])
                IN  \E out \in StevxFor(n) :
                    \E junk \in JunkFor(n, out) :
                        LET r == quadInfoGolubWelsch(n, out, junk, x, w)
                        IN  /\ matD' = J.D
                            /\ matE' = J.E
                            /\ stevx' = out
                            /\ retX' = r.x
                            /\ retW' = r.w
                            /\ returned' = TRUE
                            /\ signal' = "none"
                            /\ oob' = quadInfoGolubWelschOob(n, out)

(***************************************************************************)
(* int gaussHermiteDataDirect(n, x, w), lib.cpp 347-378; the caller owns   *)
(* x and w, both of size n.                                                *)
(***************************************************************************)
GaussHermiteDataDirectCall ==
    \E n \in 0 .. MaxN :
        LET coef == hermitePolyCoef(n, Zeros(n + 1))
        IN  \E out \in GeevFor(n) :
                LET x == findPolyRoots(n, Zeros(n), out)
                IN  /\ op = "none"
                    /\ op' = "gaussHermiteDataDirect"
                    /\ order' = n
                    /\ xIn' = <<>> /\ nIn' = <<>> /\ cIn' = <<>>
                    /\ matD' = <<>> /\ matE' = <<>>
                    /\ matC' = companionMatrix(coef, n)
                    /\ stevx' = NoStevx
                    /\ geev' = out
                    /\ local' = coef
                    /\ retV' = <<>>
                    /\ retX' = x
                    /\ retW' = [i \in 1 .. n |-> directWeight(n, x[i])]
                    /\ returned' = TRUE
                    /\ signal' = "none"
                    /\ oob' = {}

(***************************************************************************)
(* The call is over: its vectors are destroyed and nothing is kept for the *)
(* next call (the file has no static or global data).                      *)
(***************************************************************************)
Return ==
    /\ op # "none"
    /\ op' = "none"
    /\ order' = 0
    /\ xIn' = <<>> /\ nIn' = <<>> /\ cIn' = <<>>
    /\ matD' = <<>> /\ matE' = <<>> /\ matC' = <<>>
    /\ stevx' = NoStevx /\ geev' = NoGeev
    /\ local' = <<>>
    /\ returned' = FALSE
    /\ retV' = <<>> /\ retX' = <<>> /\ retW' = <<>>
    /\ signal' = "none"
    /\ oob' = {}

Next ==
    \/ HermitePolyCoefCall
    \/ FindPolyRootsCall
    \/ EvalHermitePolyCall
    \/ GaussHermiteDataCall
    \/ GaussHermiteDataDirectCall
    \/ Return

Spec == Init /\ [][Next]_vars

\* The polynomial entry points alone.
NextPoly == HermitePolyCoefCall \/ EvalHermitePolyCall \/ Return
SpecPoly == Init /\ [][NextPoly]_vars

\* The root finder and the direct engine built on it.
NextRoots == FindPolyRootsCall \/ GaussHermiteDataDirectCall \/ Return
SpecRoots == Init /\ [][NextRoots]_vars

\* The Golub-Welsch engine alone.
NextGW == GaussHermiteDataCall \/ Return
SpecGW == Init /\ [][NextGW]_vars

(***************************************************************************)
(* Properties.                                                             *)
(***************************************************************************)
\* The eigenpairs dstevx reported and the pairs handed back, as sequences
\* of <<node, weight>>.
SolverPairs == [i \in 1 .. stevx.M |-> <<stevx.W[i], stevx.cand[i]>>]
RetPairs == [i \in 1 .. Len(retX) |-> <<retX[i], retW[i]>>]
NotBelowThreshold(p) == ~(p[2] < SqrtEps)

Max(a, b) == IF a >= b THEN a ELSE b

\* C1: for every order n in 0..4 the host-facing hermitePolyCoef returns
\* the n+1 coefficients of H_n, lowest power first: [1], [0,2], [-2,0,4],
\* [0,-12,0,8], [12,0,-48,0,16].
C1_CoefficientsReturned ==
    (op = "hermitePolyCoef" /\ order \in 0 .. 4) =>
        /\ returned
        /\ Len(retV) = order + 1
        /\ retV = ClosedForm(order)

\* The core routine itself computes the closed forms into its own vector.
CoreCoefficientsClosedForm ==
    (op = "hermitePolyCoef" /\ order \in 0 .. 4) => local = ClosedForm(order)

\* C2: for d+1 coefficients (d >= 1, nonzero leading coefficient) the
\* host-facing findPolyRoots returns d values, exactly the real parts dgeev
\* wrote for the companion matrix.
C2_RootsReturned ==
    (op = "findPolyRoots" /\ order >= 1 /\ cIn[order + 1] # 0) =>
        /\ returned
        /\ Len(retV) = order
        /\ retV = geev.WR

\* The core routine does leave dgeev's real parts in its own vector.
CoreRootsAreSolverRealParts ==
    (op = "findPolyRoots" /\ order >= 1) => local = geev.WR

\* C3: for non-empty x and n (orders >= 0) evalHermitePoly broadcasts:
\* equal lengths give H_{n[i]}(x[i]); a longer x gives H_{n[0]}(x[i]) for
\* every x[i]; otherwise the result is H_{n[i]}(x[0]) for every n[i].
C3_BroadcastRule ==
    (/\ op = "evalHermitePoly"
     /\ Len(xIn) >= 1 /\ Len(nIn) >= 1
     /\ \A i \in 1 .. Len(nIn) : nIn[i] >= 0) =>
        /\ returned
        /\ IF Len(xIn) = Len(nIn)
           THEN /\ Len(retV) = Len(xIn)
                /\ \A i \in 1 .. Len(xIn) : retV[i] = HermiteH(nIn[i], xIn[i])
           ELSE IF Len(xIn) > Len(nIn)
           THEN /\ Len(retV) = Len(xIn)
                /\ \A i \in 1 .. Len(xIn) : retV[i] = HermiteH(nIn[1], xIn[i])
           ELSE /\ Len(retV) = Len(nIn)
                /\ \A i \in 1 .. Len(nIn) : retV[i] = HermiteH(nIn[i], xIn[1])

\* A call with three points and two different orders: the second order is
\* ignored, and using it would have changed the first value.
C3_BroadcastWitness ==
    /\ op = "evalHermitePoly"
    /\ Len(xIn) = 3 /\ Len(nIn) = 2
    /\ nIn[1] >= 0 /\ nIn[2] >= 0 /\ nIn[1] # nIn[2]
    /\ retV = [i \in 1 .. 3 |-> HermiteH(nIn[1], xIn[i])]
    /\ retV[2] # HermiteH(nIn[2], xIn[2])

\* C4: for n >= 1 and whatever dstevx reports (M <= n eigenpairs, any
\* candidate weights) the rule handed back has len(x) = len(w) <= M <= n
\* and holds exactly the pairs whose weight is not below sqrt(eps), in the
\* solver's order, each node with the weight of its own eigenvector.
C4_PruneExact ==
    (op = "gaussHermiteData" /\ order >= 1 /\ stevx.called) =>
        /\ returned
        /\ Len(retX) = Len(retW)
        /\ Len(retX) <= stevx.M
        /\ stevx.M <= order
        /\ RetPairs = SelectSeq(SolverPairs, NotBelowThreshold)

\* The same, for the outcomes that fit the eigenvector buffer.
PruneExactWithinCapacity ==
    (/\ op = "gaussHermiteData" /\ order >= 1 /\ stevx.called
     /\ stevx.M <= Mmax(order)) =>
        /\ returned
        /\ Len(retX) = Len(retW)
        /\ Len(retX) <= stevx.M
        /\ stevx.M <= order
        /\ RetPairs = SelectSeq(SolverPairs, NotBelowThreshold)

\* C5: when dstevx finds more eigenvalues than the Mmax the eigenvector
\* buffer was sized for, the call reports CapacityExceeded, touches no
\* eigenvector storage at index >= Mmax*n and returns no rule.
C5_CapacityChecked ==
    (op = "gaussHermiteData" /\ stevx.called /\ stevx.M > Mmax(order)) =>
        /\ signal = "CapacityExceeded"
        /\ ~returned
        /\ oob = {}

\* C6: when dstevx (Golub-Welsch path) or dgeev (root finder of the direct
\* path) reports INFO # 0, the computation aborts with
\* EigenDecompositionFailure and returns no rule.
C6_SolverFailureAborts ==
    (\/ op = "gaussHermiteData" /\ stevx.called /\ stevx.INFO # 0
     \/ op = "gaussHermiteDataDirect" /\ geev.calls > 0 /\ geev.INFO # 0) =>
        /\ signal = "EigenDecompositionFailure"
        /\ ~returned

\* The calls whose order is invalid: a negative order anywhere, or order 0
\* for a quadrature engine.
InvalidOrderCall ==
    \/ op \in {"hermitePolyCoef", "gaussHermiteData", "gaussHermiteDataDirect"}
          /\ order < 0
    \/ op = "evalHermitePoly" /\ \E i \in 1 .. Len(nIn) : nIn[i] < 0
    \/ op \in {"gaussHermiteData", "gaussHermiteDataDirect"} /\ order = 0

\* C7: a call with a negative order, or a quadrature engine called with
\* n = 0, signals InvalidOrder on entry, before any solver is invoked, and
\* returns nothing.
C7_InvalidOrderRejected ==
    InvalidOrderCall =>
        /\ signal = "InvalidOrder"
        /\ ~returned
        /\ ~stevx.called
        /\ geev.calls = 0

\* C8: evaluate(0, n) is 0 for odd n, and 1, -2, 12, -120 for
\* n = 0, 2, 4, 6.
C8_EvaluateAtZero ==
    (op = "evalHermitePoly" /\ Len(xIn) = Len(nIn)) =>
        \A i \in 1 .. Len(xIn) :
            (xIn[i] = 0 /\ nIn[i] >= 0) =>
                /\ (nIn[i] % 2 = 1) => retV[i] = 0
                /\ (nIn[i] = 0) => retV[i] = 1
                /\ (nIn[i] = 2) => retV[i] = -2
                /\ (nIn[i] = 4) => retV[i] = 12
                /\ (nIn[i] = 6) => retV[i] = -120

\* H_6(0) has been evaluated.
C8_EvaluateAtZeroWitness ==
    /\ op = "evalHermitePoly"
    /\ xIn = <<0>> /\ nIn = <<6>>
    /\ retV = <<-120>>

C10_ReadsInBounds ==
    op = "evalHermitePoly" => oob = {}

=============================================================================
